---- MODULE Spec2Model ----
(***************************************************************************)
(* Team migration of cmlutils (cmlutils/teams.py, teams_entrypoint.py):    *)
(* the paginated collector, the pre-import consistency check, the          *)
(* credential delegation cache, the team recreation engine and the import  *)
(* command, each as a state machine translated from the code.              *)
(***************************************************************************)
EXTENDS Integers, Sequences, FiniteSets, TLC

VARIABLES
    \* ---- get_teamuser_listv1 (the paginated collector)
    srvUsers,        \* the server's user list resource (type=user)
    srvTeams,        \* the server's team list resource (type=organization)
    is_team,         \* argument of get_teamuser_listv1
    limit,           \* local `limit` (page size)
    page,            \* local `page`
    user_list,       \* local `user_list` (the accumulator)
    user_list_page,  \* local `user_list_page` (the page last received)
    n_requests,      \* page requests issued so far by this collection
    short_pages,     \* non-empty pages shorter than limit received so far
    cpc,             \* position in get_teamuser_listv1
    \* ---- _check_teams_users_integration
    chk_users,       \* argument user_list
    chk_teams,       \* argument team_list
    chk_pc,          \* "pending" before the call, "done" after it
    chk_out,         \* the outcome of the call: what it raised, what it returned
    \* ---- TeamBase / TeamImporter (one process)
    key_cache,       \* self.key_cache
    snapshot,        \* the team records read from the teams file, in memory
    dest,            \* destination workspace: team name -> its memberships
    tix,             \* index in snapshot of the team being replayed
    rpc,             \* position in _create_or_update_team
    exc,             \* the exception that left _create_or_update_team, or ""
    owner_name,      \* local owner_name
    team_owner_ix,   \* team_owner_list, as indices into member_list
    filtered_ix,     \* filtered_member_list, as indices into member_list
    mi,              \* next index of the loop over filtered_member_list
    oi,              \* next index of the loop over team_owner_list
    reqs,            \* team requests sent during this replay, in order
    warnings,        \* warnings logged during this replay
    last_cred,       \* how the last call_api_v1 came by its credential
    obtained,        \* usernames a delegated credential was obtained for
    n_replays,       \* calls of _create_or_update_team so far
    finals,          \* destination memberships at each return of a replay
    raced,           \* another client changed the team during this replay
    n_interfere,     \* changes made to the destination between replays
    team_at_call,    \* the team record as _create_or_update_team received it
    \* ---- team_import_cmd
    ipc,             \* position in team_import_cmd
    verify_out,      \* outcome of _pre_import_verify, once it has run
    \* ---- team_export_cmd
    xpc,             \* position in team_export_cmd
    x_verify,        \* the --verify flag
    x_exc,           \* the exception the except clause caught, or ""
    x_logged,        \* logging.error("Exception:", ...) was called
    exit_status,     \* exit status of the process, -1 while it runs
    \* ---- compare_metadata (one call, and the call with the sides exchanged)
    dpc,             \* "pending" before the call, "done" after it
    d_call,          \* which caller: "any", or "members" (the call of verify)
    d_left,          \* first collection
    d_right,         \* second collection
    d_skip,          \* skip_field
    d_lr,            \* result of the call
    d_rl,            \* result of the call with the collections exchanged
    \* ---- _team_verify
    vpc,             \* position in _team_verify
    v_imported,      \* imported_team_data (pimport.teams)
    v_exported,      \* exported_team_data
    v_k,             \* index in exported_team_data of the loop
    team_diff,       \* local team_diff
    team_config_diff,    \* local team_config_diff
    members_diff,        \* local members_diff
    members_config_diff, \* local members_config_diff
    v_skipped,       \* source teams the loop skipped (KeyError: continue)
    v_status,        \* update_verification_status calls: the failed flags
    migration_status, \* local migration_status
    \* ---- UserNameImportValidator / UsernameValidator (validator.py)
    val_pc,          \* "pending" before validate(), "returned" or "raised" after
    val_class,       \* the validator class
    val_username,    \* self.username
    val_project,     \* self.project_name
    val_present,     \* the workspace has a user of that name
    val_key_ok,      \* self.apiv1_key is a valid key
    val_answer,      \* what the user-info request met
    val_out          \* what validate() raised, what it returned

collectVars == <<srvUsers, srvTeams, is_team, limit, page, user_list,
                 user_list_page, n_requests, short_pages, cpc>>
checkVars == <<chk_users, chk_teams, chk_pc, chk_out>>
engineVars == <<key_cache, snapshot, dest, tix, rpc, exc, owner_name,
                team_owner_ix, filtered_ix, mi, oi, reqs, warnings, last_cred,
                obtained, n_replays, finals, raced, n_interfere, team_at_call>>
importVars == <<ipc, verify_out>>
exportVars == <<xpc, x_verify, x_exc, x_logged, exit_status>>
diffVars == <<dpc, d_call, d_left, d_right, d_skip, d_lr, d_rl>>
verifyVars == <<vpc, v_imported, v_exported, v_k, team_diff, team_config_diff,
                members_diff, members_config_diff, v_skipped, v_status,
                migration_status>>
validateVars == <<val_pc, val_class, val_username, val_project, val_present,
                  val_key_ok, val_answer, val_out>>
auxVars == <<exportVars, diffVars, verifyVars, validateVars>>
vars == <<collectVars, checkVars, engineVars, importVars, auxVars>>

\* ------------------------------------------------------------------ bounds
MaxRecords == 4      \* records held by one list resource
MaxLimit == 3        \* page sizes 1..MaxLimit stand for the code's limit
MaxCheckTeams == 2   \* teams in the team list given to the check
MaxMembers == 3      \* memberships of a replayed team
MaxReplays == 2      \* direct calls of _create_or_update_team
MaxInterfere == 1    \* changes other clients make between replays
MaxTeams == 2        \* teams in the snapshot given to the import command
MaxDiffRecords == 2  \* records of a collection given to compare_metadata

Usernames == {"admin", "alice", "bob"}
UserOrder == <<"admin", "alice", "bob">>
SourcePermissions == {"owner", "member"}

Min(a, b) == IF a < b THEN a ELSE b

\* ---------------------------------------------------------------- records
\* A record of a list resource: its kind and its position in the source.
Record(kind, i) == [type |-> kind, id |-> i]
Resource(kind, n) == [i \in 1..n |-> Record(kind, i)]

\* ------------------------------------------------- the paginated collector
\* The list endpoint: `limit` records from `offset` on, of the resource the
\* type parameter selects (&type=organization or &type=user).
get_team_or_user_listv1_paged(offset, lim, team) ==
    LET records == IF team THEN srvTeams ELSE srvUsers
    IN  SubSeq(records, offset + 1, Min(offset + lim, Len(records)))

\* while(len(user_list_page) > 0)
LoopOnShortPageStop(pg, lim) == Len(pg) >= lim
LoopCondition(pg, lim) == Len(pg) > 0

\* limit = ...; page = 0; user_list = []; first page request
CollectFirst ==
    /\ cpc = "start"
    /\ page' = 0
    /\ user_list' = <<>>
    /\ user_list_page' = get_team_or_user_listv1_paged(0 * limit, limit, is_team)
    /\ n_requests' = 1
    /\ short_pages' = 0
    /\ cpc' = "loop"
    /\ UNCHANGED <<srvUsers, srvTeams, is_team, limit, checkVars, engineVars, importVars,
                   auxVars>>

\* one iteration of the while loop
CollectLoop ==
    /\ cpc = "loop"
    /\ LoopCondition(user_list_page, limit)
    /\ page' = page + 1
    /\ user_list' = user_list \o user_list_page
    /\ user_list_page' =
           get_team_or_user_listv1_paged((page + 1) * limit, limit, is_team)
    /\ n_requests' = n_requests + 1
    /\ short_pages' = short_pages + (IF Len(user_list_page) < limit THEN 1 ELSE 0)
    /\ UNCHANGED <<srvUsers, srvTeams, is_team, limit, cpc, checkVars, engineVars, importVars,
                   auxVars>>

\* the loop condition fails: return user_list
CollectReturn ==
    /\ cpc = "loop"
    /\ ~LoopCondition(user_list_page, limit)
    /\ cpc' = "returned"
    /\ UNCHANGED <<srvUsers, srvTeams, is_team, limit, page, user_list,
                   user_list_page, n_requests, short_pages, checkVars,
                   engineVars, importVars, auxVars>>

\* get_teamuser_listv1 as a function of the resource: the list it returns.
RECURSIVE collect_from(_, _, _, _)
collect_from(records, lim, pg, acc) ==
    LET got == SubSeq(records, pg * lim + 1, Min(pg * lim + lim, Len(records)))
    IN  IF LoopCondition(got, lim)
        THEN collect_from(records, lim, pg + 1, acc \o got)
        ELSE acc
get_teamuser_listv1(records, lim) == collect_from(records, lim, 0, <<>>)

\* --------------------------------------- _check_teams_users_integration
\* team_owner_list = list(filter(lambda m: m['permission'] == 'owner', ...))
IsOwner(m) == m.permission = "owner"
OwnerList(member_list) == SelectSeq(member_list, IsOwner)

\* user_dict[username] = user, for user in user_list (the last one wins)
UserDict(ul) ==
    [n \in {ul[i].username : i \in DOMAIN ul} |->
        ul[CHOOSE i \in DOMAIN ul :
              /\ ul[i].username = n
              /\ \A j \in DOMAIN ul : ul[j].username = n => j <= i]]

\* if not team_owner['admin']: warning only (result = False is commented out)
OwnerNotAdminFails(result, team_owner) == IF team_owner.admin THEN result ELSE FALSE
OwnerAdminVerdict(result, team_owner) == result

\* if len(team_owner_list) > 1: warning only
ManyOwnersVerdict(result, team_owner_list) == result

\* The loop body for one team, the owner list known to be non-empty.
CheckTeam(user_dict, team, result) ==
    LET member_list == team.teamMembers
        team_owner_list == OwnerList(member_list)
        r0 == ManyOwnersVerdict(result, team_owner_list)
        team_owner_name == team_owner_list[1].username
        r1 == IF team_owner_name \in DOMAIN user_dict
              THEN OwnerAdminVerdict(r0, user_dict[team_owner_name])
              ELSE FALSE
    IN  IF \E j \in DOMAIN member_list :
               member_list[j].username \notin DOMAIN user_dict
        THEN FALSE
        ELSE r1

\* for team in team_list: ... ; team_owner_list[0] raises IndexError on an
\* empty owner list, after result = False was set.
RECURSIVE check_loop(_, _, _, _)
check_loop(user_dict, team_list, i, result) ==
    IF i > Len(team_list)
    THEN [raised |-> "", result |-> result]
    ELSE IF Len(OwnerList(team_list[i].teamMembers)) <= 0
         THEN [raised |-> "IndexError", result |-> FALSE]
         ELSE check_loop(user_dict, team_list, i + 1,
                         CheckTeam(user_dict, team_list[i], result))

check_teams_users_integration(ul, tl) == check_loop(UserDict(ul), tl, 1, TRUE)

\* ------------------------------------------------------ inputs of the check
Member(u, p) == [username |-> u, permission |-> p]

\* Membership lists of the checked teams: alice and bob, each at most once (a
\* membership is a (team, user) pair).
CheckMembers == <<"alice", "bob">>
RECURSIVE MemberListsFrom(_)
MemberListsFrom(k) ==
    IF k > Len(CheckMembers) THEN {<<>>}
    ELSE LET rest == MemberListsFrom(k + 1)
         IN  rest \cup {<<Member(CheckMembers[k], p)>> \o r :
                            p \in SourcePermissions, r \in rest}
                  \cup {r \o <<Member(CheckMembers[k], p)>> :
                            p \in SourcePermissions, r \in rest}
OrderedMemberLists == MemberListsFrom(1)

TeamName(i) == IF i = 1 THEN "t1" ELSE IF i = 2 THEN "t2" ELSE "t3"
Team(name, ml) == [username |-> name, teamMembers |-> ml]

\* User lists: each user absent, an ML admin or not.
RECURSIVE UserListsFrom(_)
UserListsFrom(k) ==
    IF k > Len(UserOrder) THEN {<<>>}
    ELSE LET rest == UserListsFrom(k + 1)
         IN  rest \cup {<<[username |-> UserOrder[k], admin |-> a]>> \o r :
                            a \in BOOLEAN, r \in rest}
UserLists == UserListsFrom(1)

TeamLists(max, lists) ==
    UNION {{[i \in 1..n |-> Team(TeamName(i), f[i])] : f \in [1..n -> lists]} :
              n \in 0..max}

\* The call of the check: result = _check_teams_users_integration(...)
CheckCall ==
    /\ chk_pc = "pending"
    /\ chk_pc' = "done"
    /\ chk_out' = check_teams_users_integration(chk_users, chk_teams)
    /\ UNCHANGED <<chk_users, chk_teams, collectVars, engineVars, importVars, auxVars>>

\* ------------------------------------------------------------ identities
PrimaryUser == "admin"            \* self.username, the configured identity
NoUser == "None"                  \* username = None
NoKey == <<"None">>               \* api_key = None
KeyOf(u) == <<"key", u>>          \* an API key that authenticates user u
PrimaryKey == KeyOf(PrimaryUser)  \* self.api_key
TeamNames == {"t1", "t2", "t3"}
DestPermissions == {"owner", "admin", "member"}
NoMember == [username |-> "", permission |-> ""]
EmptyCache == [k \in {} |-> NoKey]
Put(f, k, v) == [x \in DOMAIN f \cup {k} |-> IF x = k THEN v ELSE f[x]]
NamesIn(ms) == {m.username : m \in ms}
NotRun == [raised |-> "not run", result |-> FALSE]
NoTeam == [username |-> "", teamMembers |-> <<>>]
NoResponse == [validation_name |-> "", validation_msg |-> <<>>, validation_status |-> ""]
NotValidated == [raised |-> "", response |-> NoResponse]
NoOutcome == [raised |-> "", result |-> TRUE]
NoCred == [user |-> NoUser, lookup |-> FALSE, hit |-> FALSE, sent |-> <<>>,
           api_key |-> NoKey, fetch |-> "none", mint |-> "none", had |-> FALSE,
           cache_before |-> EmptyCache]

\* ----------------------------------------- credential delegation cache
\* try: _get_apiv2_key (GET); except: try: _new_apiv2_key (POST)
MintAlways(fetch_ok) == <<"GET", "POST">>
CredRequests(fetch_ok) == IF fetch_ok THEN <<"GET">> ELSE <<"GET", "POST">>

\* if not api_key is not None:
CacheStoresKey(api_key) == ~(api_key # NoKey)
\* self.key_cache['username'] = api_key
CacheKeyFor(username) == "username"

retrive_or_create_api_key_for_user(cache, username, fetch_ok, mint_ok) ==
    IF username \in DOMAIN cache
    THEN [api_key |-> cache[username], cache |-> cache, sent |-> <<>>,
          lookup |-> TRUE, hit |-> TRUE, fetch |-> "none", mint |-> "none"]
    ELSE LET sent == CredRequests(fetch_ok)
             minting == Len(sent) > 1
             api_key == IF fetch_ok THEN KeyOf(username)
                        ELSE IF minting /\ mint_ok THEN KeyOf(username)
                        ELSE NoKey
         IN  [api_key |-> api_key,
              cache |-> IF CacheStoresKey(api_key)
                        THEN Put(cache, CacheKeyFor(username), api_key)
                        ELSE cache,
              sent |-> sent, lookup |-> TRUE, hit |-> FALSE,
              fetch |-> IF fetch_ok THEN "ok" ELSE "failed",
              mint |-> IF ~minting THEN "none"
                       ELSE IF mint_ok THEN "ok" ELSE "failed"]

\* if (not username is None) and (username != self.username)
DelegatesAlways(username) == username # NoUser
UsesDelegation(username) == username # NoUser /\ username # PrimaryUser

\* TeamBase.call_api_v1: the credential the request is sent with
call_api_v1_credential(cache, username, fetch_ok, mint_ok) ==
    IF UsesDelegation(username)
    THEN retrive_or_create_api_key_for_user(cache, username, fetch_ok, mint_ok)
    ELSE [api_key |-> PrimaryKey, cache |-> cache, sent |-> <<>>,
          lookup |-> FALSE, hit |-> FALSE, fetch |-> "none", mint |-> "none"]

\* ------------------------------------------- the destination workspace
\* The answers the destination may give to a team request sent with `cred`:
\* its own rules first (401 without a credential, 404 for a missing team, a
\* team name that exists already); a request it could accept it may still
\* refuse with another HTTP error, and so a member add for a present member.
ServerStatuses(d, op, t, m, cred) ==
    IF cred = NoKey THEN {"401"}
    ELSE IF op = "DELETE team"
         THEN (IF d[t] = {} THEN {"404"} ELSE {"ok", "error"})
    ELSE IF op = "POST team"
         THEN (IF d[t] # {} THEN {"exists"} ELSE {"ok", "error"})
    ELSE IF d[t] = {} THEN {"404"}
    ELSE IF m.username \in NamesIn(d[t]) THEN {"already", "error"}
    ELSE {"ok", "error"}
Statuses == {"ok", "401", "404", "exists", "already", "error"}

\* The destination after the request: a team is created with the user the
\* credential belongs to as its owner.
ServerApply(d, op, t, m, cred, status) ==
    IF status # "ok" THEN d
    ELSE IF op = "DELETE team" THEN [d EXCEPT ![t] = {}]
    ELSE IF op = "POST team"
         THEN [d EXCEPT ![t] = {[username |-> cred[2], permission |-> "owner"]}]
    ELSE [d EXCEPT ![t] = d[t] \cup {m}]

\* One TeamBase.call_api_v1 call: the credential, then the request.
Call(op, t, m, acting, status, fetch_ok, mint_ok) ==
    LET c == call_api_v1_credential(key_cache, acting, fetch_ok, mint_ok)
    IN  /\ status \in ServerStatuses(dest, op, t, m, c.api_key)
        /\ key_cache' = c.cache
        /\ last_cred' = [user |-> acting, lookup |-> c.lookup, hit |-> c.hit,
                         sent |-> c.sent, api_key |-> c.api_key,
                         fetch |-> c.fetch, mint |-> c.mint,
                         had |-> acting \in obtained,
                         cache_before |-> key_cache]
        /\ obtained' = IF c.lookup /\ c.api_key # NoKey
                       THEN obtained \cup {acting} ELSE obtained
        /\ dest' = ServerApply(dest, op, t, m, c.api_key, status)
        /\ reqs' = Append(reqs, [op |-> op, team |-> t, member |-> m,
                                 acting |-> acting, cred |-> c.api_key,
                                 status |-> status])

\* --------------------------------------------- _create_or_update_team
Indices(member_list, want_owner) ==
    SelectSeq([i \in 1..Len(member_list) |-> i],
              LAMBDA i : IsOwner(member_list[i]) = want_owner)

\* _translate_team
translate_team(team) == [type |-> "organization", username |-> team.username]
\* _translate_member: extract_fields(m, MEMBER_MAPV1)
translate_member(m) == [username |-> m.username, permission |-> m.permission]

\* add_team_member: if (cause.find("is already a member of this team") < 0): raise
ReraisesConflict(status) == status # "ok"
SwallowsEveryError(status) == FALSE
add_team_member_raises(status) == status # "ok" /\ status # "already"

\* self._del_team(team) comes first, then self._add_team(...)
SkipDelete == "create"
AfterOwnerFound == "del"

\* the position after an add: the two loops, then the return
AfterAdds(n_filtered, n_owners, m_next, o_next) ==
    IF m_next <= n_filtered THEN "members"
    ELSE IF o_next <= n_owners THEN "owners"
    ELSE "returned"

CurTeam == snapshot[tix]
Returned(pos, d) ==
    IF pos = "returned"
    THEN Append(finals, [members |-> d[CurTeam.username], raced |-> raced,
                         changes |-> n_interfere])
    ELSE finals

\* team_owner = team_owner_list[0], as an index into member_list
LastOwner(team_owner_list) == team_owner_list[Len(team_owner_list)]
team_owner(team_owner_list) == team_owner_list[1]

\* lines 336-340: the owner of the team; team_owner_list[0] raises
\* IndexError on a team without owner
Begin(i) ==
    LET member_list == snapshot[i].teamMembers
        own == Indices(member_list, TRUE)
    IN  /\ tix' = i
        /\ n_replays' = n_replays + 1
        /\ team_at_call' = snapshot[i]
        /\ reqs' = <<>>
        /\ warnings' = 0
        /\ raced' = FALSE
        /\ team_owner_ix' = own
        /\ filtered_ix' = <<>>
        /\ mi' = 1
        /\ oi' = 2
        /\ IF own = <<>>
           THEN rpc' = "raised" /\ exc' = "IndexError" /\ owner_name' = NoUser
           ELSE /\ rpc' = AfterOwnerFound
                /\ exc' = ""
                /\ owner_name' = member_list[team_owner(own)].username
        /\ last_cred' = NoCred
        /\ UNCHANGED <<key_cache, snapshot, dest, obtained, finals, n_interfere,
                       collectVars, checkVars, auxVars>>

\* _del_team: try: self._del_teamv1(team) except: pass
DelTeamPropagates(status) == status # "ok"
del_team_raises(status) == FALSE

\* self._del_team(team): _del_teamv1 as the primary identity; except: pass
DelTeam ==
    /\ rpc = "del"
    /\ \E status \in Statuses, fetch_ok \in BOOLEAN, mint_ok \in BOOLEAN :
          /\ Call("DELETE team", CurTeam.username, NoMember, NoUser, status,
                  fetch_ok, mint_ok)
          /\ IF del_team_raises(status)
             THEN rpc' = "raised" /\ exc' = "HTTPError"
             ELSE rpc' = "create" /\ exc' = exc
    /\ UNCHANGED <<snapshot, tix, owner_name, team_owner_ix, filtered_ix,
                   mi, oi, warnings, n_replays, finals, raced, n_interfere,
                   collectVars, checkVars, importVars, auxVars,
                   team_at_call>>

\* _add_team, _add_teamv1: nothing catches the HTTPError of the request
AddTeamSwallows(status) == FALSE
add_team_raises(status) == status # "ok"

\* self._add_team(self._translate_team(team), username = owner_name), then
\* filtered_member_list (ENABLE_TEAM_FAKE_TEST is False)
AddTeam ==
    /\ rpc = "create"
    /\ \E status \in Statuses, fetch_ok \in BOOLEAN, mint_ok \in BOOLEAN :
          /\ Call("POST team", translate_team(CurTeam).username, NoMember,
                  owner_name, status, fetch_ok, mint_ok)
          /\ IF ~add_team_raises(status)
             THEN LET flt == Indices(CurTeam.teamMembers, FALSE)
                      pos == AfterAdds(Len(flt), Len(team_owner_ix), mi, oi)
                  IN  /\ filtered_ix' = flt
                      /\ rpc' = pos
                      /\ exc' = ""
                      /\ finals' = Returned(pos, dest')
             ELSE /\ rpc' = "raised"
                  /\ exc' = "HTTPError"
                  /\ UNCHANGED <<filtered_ix, finals>>
    /\ UNCHANGED <<snapshot, tix, owner_name, team_owner_ix, mi, oi, warnings,
                   n_replays, raced, n_interfere, collectVars, checkVars,
                   importVars, auxVars,
                   team_at_call>>

\* for m in filtered_member_list: self.add_team_member(team_name, member, owner_name)
AddMember ==
    /\ rpc = "members"
    /\ LET m == CurTeam.teamMembers[filtered_ix[mi]]
           member == translate_member(m)
       IN  \E status \in Statuses, fetch_ok \in BOOLEAN, mint_ok \in BOOLEAN :
              /\ Call("POST member", CurTeam.username, member, owner_name,
                      status, fetch_ok, mint_ok)
              /\ IF add_team_member_raises(status)
                 THEN /\ rpc' = "raised"
                      /\ exc' = "HTTPError"
                      /\ UNCHANGED <<mi, warnings, finals>>
                 ELSE LET pos == AfterAdds(Len(filtered_ix), Len(team_owner_ix),
                                           mi + 1, oi)
                      IN  /\ mi' = mi + 1
                          /\ rpc' = pos
                          /\ exc' = ""
                          /\ warnings' = warnings + (IF status = "ok" THEN 0 ELSE 1)
                          /\ finals' = Returned(pos, dest')
    /\ UNCHANGED <<snapshot, tix, owner_name, team_owner_ix, filtered_ix, oi,
                   n_replays, raced, n_interfere, collectVars, checkVars,
                   importVars, auxVars,
                   team_at_call>>

\* for i in range(len(team_owner_list)), i > 0: owner_name = m['username'];
\* warning; m['permission'] = 'admin'; add_team_member(team_name, member, owner_name)
ExtraOwnerActor(first_owner, m) == m.username
\* m['permission'] = 'admin'
KeepsOwner(m) == m
downgrade(m) == [m EXCEPT !.permission = "admin"]
AddExtraOwner ==
    /\ rpc = "owners"
    /\ LET j == team_owner_ix[oi]
           m == downgrade(CurTeam.teamMembers[j])
           member == translate_member(m)
           actor == ExtraOwnerActor(owner_name, m)
       IN  /\ owner_name' = actor
           /\ snapshot' = [snapshot EXCEPT ![tix].teamMembers[j] = m]
           /\ \E status \in Statuses, fetch_ok \in BOOLEAN, mint_ok \in BOOLEAN :
                 /\ Call("POST member", CurTeam.username, member, actor,
                         status, fetch_ok, mint_ok)
                 /\ IF add_team_member_raises(status)
                    THEN /\ rpc' = "raised"
                         /\ exc' = "HTTPError"
                         /\ warnings' = warnings + 1
                         /\ UNCHANGED <<oi, finals>>
                    ELSE LET pos == AfterAdds(Len(filtered_ix), Len(team_owner_ix),
                                              mi, oi + 1)
                         IN  /\ oi' = oi + 1
                             /\ rpc' = pos
                             /\ exc' = ""
                             /\ warnings' = warnings + (IF status = "ok" THEN 1 ELSE 2)
                             /\ finals' = Returned(pos, dest')
    /\ UNCHANGED <<tix, team_owner_ix, filtered_ix, mi, n_replays, raced,
                   n_interfere, collectVars, checkVars, importVars, auxVars,
                   team_at_call>>

\* ------------------------------------------------ replaying a team directly
\* self._create_or_update_team(team), called on the same team record again
ReplayCall ==
    /\ rpc \in {"idle", "returned", "raised"}
    /\ n_replays < MaxReplays
    /\ Begin(1)
    /\ UNCHANGED importVars

\* One change another client can make to a destination team: delete the team,
\* remove a membership, add one (creating the team if need be), or change the
\* permission of one.
Changes(ms) ==
    ({{}} \cup {ms \ {m} : m \in ms}
          \cup {ms \cup {Member(u, p)} :
                   u \in Usernames \ NamesIn(ms), p \in DestPermissions}
          \cup {(ms \ {m}) \cup {Member(m.username, p)} :
                   m \in ms, p \in DestPermissions}) \ {ms}

\* Between replays, the importer idle, other clients change the destination
\* team at will.
Interfere ==
    /\ rpc \in {"idle", "returned", "raised"}
    /\ n_interfere < MaxInterfere
    /\ n_replays < MaxReplays
    /\ \E ms \in Changes(dest[snapshot[1].username]) :
          dest' = [dest EXCEPT ![snapshot[1].username] = ms]
    /\ n_interfere' = n_interfere + 1
    /\ rpc' = "idle" /\ exc' = "" /\ owner_name' = NoUser
    /\ team_owner_ix' = <<>> /\ filtered_ix' = <<>> /\ mi' = 1 /\ oi' = 2
    /\ reqs' = <<>> /\ warnings' = 0 /\ last_cred' = NoCred /\ raced' = FALSE
    /\ UNCHANGED <<key_cache, snapshot, tix, obtained, n_replays, finals,
                   collectVars, checkVars, importVars, auxVars,
                   team_at_call>>

\* During the membership replay another client adds a user of the team first.
RaceAdd ==
    /\ rpc \in {"members", "owners"}
    /\ ~raced
    /\ \E j \in DOMAIN CurTeam.teamMembers, p \in DestPermissions \ {"owner"} :
          /\ CurTeam.teamMembers[j].username \notin NamesIn(dest[CurTeam.username])
          /\ dest' = [dest EXCEPT ![CurTeam.username] =
                         @ \cup {Member(CurTeam.teamMembers[j].username, p)}]
    /\ raced' = TRUE
    /\ UNCHANGED <<key_cache, snapshot, tix, rpc, exc, owner_name, team_owner_ix,
                   filtered_ix, mi, oi, reqs, warnings, last_cred, obtained,
                   n_replays, finals, n_interfere, collectVars, checkVars,
                   importVars, auxVars,
                   team_at_call>>

\* ------------------------------------------------------- team_import_cmd
TeamRecordsOf(d) ==
    LET names == SelectSeq(<<"t1", "t2", "t3">>, LAMBDA t : d[t] # {})
    IN  [i \in 1..Len(names) |-> [username |-> names[i], teamMembers |-> d[names[i]]]]

\* if (not result): raise RuntimeError(...)
GateOpen(result) == "import"
PreVerifyGate(result) == IF result THEN "import" ELSE "aborted"

\* pimport = TeamImporter(...): self.teams = self.get_teamuser_listv1(True);
\* a failed page request propagates
Construct ==
    /\ ipc = "ctor"
    /\ \E ok \in BOOLEAN : ipc' = IF ok THEN "preverify" ELSE "crashed"
    /\ UNCHANGED <<verify_out, engineVars, collectVars, checkVars, auxVars>>

\* result = pimport._pre_import_verify(); if (not result): raise RuntimeError
PreImportVerify ==
    /\ ipc = "preverify"
    /\ \E ok \in BOOLEAN :
          IF ~ok THEN ipc' = "crashed" /\ UNCHANGED verify_out
          ELSE LET team_list == snapshot
                   ul == get_teamuser_listv1(srvUsers, limit)
                   out == check_teams_users_integration(ul, team_list)
               IN  /\ verify_out' = out
                   /\ ipc' = IF out.raised # "" THEN "crashed"
                             ELSE PreVerifyGate(out.result)
    /\ UNCHANGED <<engineVars, collectVars, checkVars, auxVars>>

\* _import_teams: for team in team_metadata_list: self._create_or_update_team(team)
ImportLoop ==
    /\ ipc = "import"
    /\ rpc \in {"idle", "returned"}
    /\ tix < Len(snapshot)
    /\ Begin(tix + 1)
    /\ UNCHANGED importVars

\* an exception of _create_or_update_team leaves _import_teams,
\* _import_team_metadata and team_import_cmd: nothing catches it
ImportRaise ==
    /\ ipc = "import"
    /\ rpc = "raised"
    /\ ipc' = "crashed"
    /\ UNCHANGED <<verify_out, engineVars, collectVars, checkVars, auxVars>>

\* after the loop: team_list = self.get_teamuser_listv1(True), the metrics, the
\* summary
ImportFinish ==
    /\ ipc = "import"
    /\ rpc \in {"idle", "returned"}
    /\ tix = Len(snapshot)
    /\ \E ok \in BOOLEAN : ipc' = IF ok THEN "done" ELSE "crashed"
    /\ UNCHANGED <<verify_out, engineVars, collectVars, checkVars, auxVars>>

\* ------------------------------------------------------- team_export_cmd
\* exit() without argument raises SystemExit(None): exit status 0
SystemExitStatus(code) == IF code = "None" THEN 0 ELSE code
\* except: logging.error("Exception:", exc_info=1); exit()
ExceptExitArg == "None"

\* _export_users: user_list = self.get_teamuser_listv1(False), write_json_file
ExportUsers ==
    /\ xpc = "users"
    /\ \E e \in {"", "HTTPError", "OSError"} :
          /\ x_exc' = e
          /\ xpc' = IF e = "" THEN "teams" ELSE "except"
    /\ UNCHANGED <<x_verify, x_logged, exit_status, diffVars, verifyVars,
                   collectVars, checkVars, engineVars, importVars,
                   validateVars>>

\* _export_teams: team_list = self.get_teamuser_listv1(True), write_json_file
ExportTeams ==
    /\ xpc = "teams"
    /\ \E e \in {"", "HTTPError", "OSError"} :
          /\ x_exc' = e
          /\ xpc' = IF e = "" THEN "verify" ELSE "except"
    /\ UNCHANGED <<x_verify, x_logged, exit_status, diffVars, verifyVars,
                   collectVars, checkVars, engineVars, importVars,
                   validateVars>>

\* if (verify): result = _check_teams_users_integration(user_list, team_list)
ExportVerify ==
    /\ xpc = "verify"
    /\ LET ul == get_teamuser_listv1(srvUsers, limit)
           tl == get_teamuser_listv1(srvTeams, limit)
           out == IF x_verify THEN check_teams_users_integration(ul, tl)
                  ELSE NoOutcome
       IN  /\ chk_out' = out
           /\ x_exc' = out.raised
           /\ xpc' = IF out.raised = "" THEN "metrics" ELSE "except"
    /\ UNCHANGED <<x_verify, x_logged, exit_status, diffVars, verifyVars,
                   collectVars, chk_users, chk_teams, chk_pc, engineVars,
                   importVars,
                   validateVars>>

\* the summary is printed, then write_json_file(export_file, exported_data);
\* the function returns and the process ends
ExportMetrics ==
    /\ xpc = "metrics"
    /\ \E e \in {"", "OSError"} :
          /\ x_exc' = e
          /\ xpc' = IF e = "" THEN "exited" ELSE "except"
          /\ exit_status' = IF e = "" THEN 0 ELSE exit_status
    /\ UNCHANGED <<x_verify, x_logged, diffVars, verifyVars, collectVars,
                   checkVars, engineVars, importVars,
                   validateVars>>

\* except: logging.error("Exception:", exc_info=1); exit()
ExportExcept ==
    /\ xpc = "except"
    /\ x_logged' = TRUE
    /\ exit_status' = SystemExitStatus(ExceptExitArg)
    /\ xpc' = "exited"
    /\ UNCHANGED <<x_verify, x_exc, diffVars, verifyVars, collectVars,
                   checkVars, engineVars, importVars,
                   validateVars>>

\* ----------------------------------------------------- compare_metadata
\* TeamBase._namelist: list(map(lambda d: d['username'], l)), as a set
DropsLastName(l) == {l[i].username : i \in 1..(Len(l) - 1)}
namelist(l) == {l[i].username : i \in DOMAIN l}

\* the record of a collection with the given identity (the first one)
RecordOf(coll, idf, key) ==
    coll[CHOOSE i \in DOMAIN coll :
            /\ coll[i][idf] = key
            /\ \A j \in DOMAIN coll : coll[j][idf] = key => i <= j]

\* the fields two records differ in, those of skip_field and the identity
\* field apart
FieldsDiffering(l, r, skip_field, idf) ==
    {f \in (DOMAIN l \cup DOMAIN r) \ (skip_field \cup {idf}) :
        \/ f \notin DOMAIN l
        \/ f \notin DOMAIN r
        \/ l[f] # r[f]}

\* compare_metadata(import_data, export_data, import_data_list,
\* export_data_list, skip_field, user_id_key): the keys present on one side
\* only, and the (identity, field) pairs that differ for the keys of both
compare_metadata(import_data, export_data, import_data_list, export_data_list, skip_field, user_id_key) ==
    [missing |-> (import_data_list \ export_data_list)
                    \cup (export_data_list \ import_data_list),
     fields |-> UNION {{<<key, f>> :
                          f \in FieldsDiffering(
                                   RecordOf(import_data, user_id_key, key),
                                   RecordOf(export_data, user_id_key, key),
                                   skip_field, user_id_key)} :
                       key \in import_data_list \cap export_data_list}]

\* skip_field of the member comparison of _team_verify
SkipsIdentifiersOnly == {"id", "html_url", "url"}
MemberSkipFields == {"id", "html_url", "url", "permission"}

\* the member comparison of _team_verify: imported against exported
member_compare(imported_member_data, exported_member_data) ==
    compare_metadata(imported_member_data, exported_member_data,
                     namelist(imported_member_data),
                     namelist(exported_member_data),
                     MemberSkipFields, "username")

\* One call of compare_metadata on two collections, and the call with the
\* collections exchanged.
DiffCall ==
    /\ dpc = "pending"
    /\ \E skip \in SUBSET {"permission", "name"} :
          /\ d_skip' = skip
          /\ d_lr' = compare_metadata(d_left, d_right, namelist(d_left),
                                      namelist(d_right), skip, "username")
          /\ d_rl' = compare_metadata(d_right, d_left, namelist(d_right),
                                      namelist(d_left), skip, "username")
    /\ d_call' = "any"
    /\ dpc' = "done"
    /\ UNCHANGED <<d_left, d_right, exportVars, verifyVars, collectVars,
                   checkVars, engineVars, importVars,
                   validateVars>>

\* The call _team_verify makes for the memberships of one team.
DiffMembers ==
    /\ dpc = "pending"
    /\ d_skip' = MemberSkipFields
    /\ d_lr' = member_compare(d_left, d_right)
    /\ d_rl' = member_compare(d_right, d_left)
    /\ d_call' = "members"
    /\ dpc' = "done"
    /\ UNCHANGED <<d_left, d_right, exportVars, verifyVars, collectVars,
                   checkVars, engineVars, importVars,
                   validateVars>>

\* --------------------------------------------------------- _team_verify
\* skip_field of the team comparison
TeamSkipFields ==
    {"id", "name", "username_hash", "joined_on", "password_updated_at",
     "followers", "public_projects", "organization_projects",
     "private_projects", "running_dashboards", "members", "api_keys", "banned",
     "deactivated", "namespace", "memory_hours", "cpu_hours", "gpu_hours",
     "avg_session_duration", "jobs_run", "sessions_run", "html_url",
     "ldapSynced", "lastSyncedAt", "teamMembers", "url"}

\* TeamImporter.__init__: self.teamdict[team_name] = team, for team in self.teams
teamdict(teams) == UserDict(teams)

\* migration_status = all(not sublist for sublist in result)
TeamListsOnly(result) == result[1] = {} /\ result[2] = {}
all_empty(result) == \A i \in DOMAIN result : result[i] = {}

\* pimport = TeamImporter(...), pexport = TeamExporter(...),
\* exported_team_data = pexport.get_teamuser_listv1(True): a failed page
\* request propagates
VerifyRead ==
    /\ vpc = "read"
    /\ \E ok \in BOOLEAN : vpc' = IF ok THEN "teams" ELSE "crashed"
    /\ UNCHANGED <<v_imported, v_exported, v_k, team_diff, team_config_diff,
                   members_diff, members_config_diff, v_skipped, v_status,
                   migration_status, exportVars, diffVars, collectVars,
                   checkVars, engineVars, importVars,
                   validateVars>>

\* team_diff, team_config_diff = compare_metadata(imported_team_data,
\* exported_team_data, ..., user_id_key='username')
VerifyTeams ==
    /\ vpc = "teams"
    /\ LET out == compare_metadata(v_imported, v_exported, namelist(v_imported),
                                   namelist(v_exported), TeamSkipFields,
                                   "username")
       IN  /\ team_diff' = out.missing
           /\ team_config_diff' = out.fields
    /\ members_diff' = <<>>
    /\ members_config_diff' = <<>>
    /\ v_k' = 1
    /\ vpc' = "members"
    /\ UNCHANGED <<v_imported, v_exported, v_skipped, v_status,
                   migration_status, exportVars, diffVars, collectVars,
                   checkVars, engineVars, importVars,
                   validateVars>>

\* for exported_team in exported_team_data: one iteration
VerifyMembers ==
    /\ vpc = "members"
    /\ v_k <= Len(v_exported)
    /\ LET exported_team == v_exported[v_k]
           team_name == exported_team.username
       IN  IF team_name \notin DOMAIN teamdict(v_imported)
           THEN \* except KeyError: continue
                /\ v_skipped' = v_skipped \cup {team_name}
                /\ UNCHANGED <<members_diff, members_config_diff, v_status>>
           ELSE LET imported_team == teamdict(v_imported)[team_name]
                    out == member_compare(imported_team.teamMembers,
                                          exported_team.teamMembers)
                IN  /\ members_diff' = Append(members_diff, out.missing)
                    /\ members_config_diff' =
                           Append(members_config_diff, out.fields)
                    /\ v_status' = Append(v_status,
                                          out.missing # {} \/ out.fields # {})
                    /\ UNCHANGED v_skipped
    /\ v_k' = v_k + 1
    /\ UNCHANGED <<vpc, v_imported, v_exported, team_diff, team_config_diff,
                   migration_status, exportVars, diffVars, collectVars,
                   checkVars, engineVars, importVars,
                   validateVars>>

\* after the loop: result, migration_status, update_verification_status
VerifySummary ==
    /\ vpc = "members"
    /\ v_k > Len(v_exported)
    /\ LET result == <<team_diff, team_config_diff>> \o members_diff
                         \o members_config_diff
       IN  /\ migration_status' = all_empty(result)
           /\ v_status' = Append(v_status, ~all_empty(result))
    /\ vpc' = "done"
    /\ UNCHANGED <<v_imported, v_exported, v_k, team_diff, team_config_diff,
                   members_diff, members_config_diff, v_skipped, exportVars,
                   diffVars, collectVars, checkVars, engineVars, importVars,
                   validateVars>>

\* ------------------------------------------- the username validators
\* ValidationResponse(validation_name, validation_msg, validation_status); a
\* message built with "...{}...".format(x) is the pair of template and x
ValidationResponse(name, msg, status) == [validation_name |-> name, validation_msg |-> msg, validation_status |-> status]

\* What the user-info request (GET, ApiV1Endpoints.USER_INFO) meets: the
\* workspace refuses an invalid key with 401, answers 404 for a user it does
\* not have and 200 otherwise; any request may also meet another HTTP error,
\* or no HTTP answer at all.
UserInfoAnswers(present, key_ok) ==
    (IF ~key_ok THEN {"401"} ELSE IF ~present THEN {"404"} ELSE {"200"})
        \cup {"403", "500", "ConnectionError"}
IsHTTPStatus(answer) == answer # "ConnectionError"

\* except HTTPError as e: the three branches on e.response.status_code. The
\* error carries a JSON body (the transport's contract), which each branch
\* parses for its log line; logging.info("e", status) logs a formatting
\* error and goes on.
ReraisesOtherStatus(validation_name, project_name, status_code, msg401) ==
    IF status_code = "404"
    THEN [raised |-> "",
          response |-> ValidationResponse(validation_name,
                <<"The user name does not exist. Ensure that the user name provided for the project {} is correct.",
                  project_name>>, "FAILED")]
    ELSE IF status_code = "401"
    THEN [raised |-> "",
          response |-> ValidationResponse(validation_name,
                                          <<msg401, project_name>>, "FAILED")]
    ELSE [raised |-> "HTTPError", response |-> NoResponse]
except_HTTPError(validation_name, project_name, status_code, msg401) ==
    [raised |-> "",
     response |->
        IF status_code = "404"
        THEN ValidationResponse(validation_name,
                <<"The user name does not exist. Ensure that the user name provided for the project {} is correct.",
                  project_name>>, "FAILED")
        ELSE IF status_code = "401"
        THEN ValidationResponse(validation_name, <<msg401, project_name>>,
                                "FAILED")
        ELSE ValidationResponse(validation_name,
                <<"Exception occurred while validating username">>, "FAILED")]

\* try: call_api_v1(...); return ValidationResponse(... PASSED)
\* except HTTPError as e: ...   (another exception leaves validate)
validate_user(validation_name, project_name, answer, msg401) ==
    IF answer = "200"
    THEN [raised |-> "",
          response |-> ValidationResponse(validation_name,
                                          <<"The user name exists.">>, "PASSED")]
    ELSE IF IsHTTPStatus(answer)
    THEN except_HTTPError(validation_name, project_name, answer, msg401)
    ELSE [raised |-> answer, response |-> NoResponse]

\* UserNameImportValidator.validate
UserNameImportValidator_validate(project_name, answer) ==
    validate_user("check if user is present", project_name, answer,
        "The user is unauthorised. Ensure that the API key for the project {} is correct")

\* UsernameValidator.validate
UsernameValidator_validate(project_name, answer) ==
    validate_user("check if user is present", project_name, answer,
        "The user is unauthorised. Ensure that the API key for the project {} is correct ")

ImportValidate ==
    /\ val_pc = "pending"
    /\ val_class = "UserNameImportValidator"
    /\ \E answer \in UserInfoAnswers(val_present, val_key_ok) :
          /\ val_answer' = answer
          /\ val_out' = UserNameImportValidator_validate(val_project, answer)
          /\ val_pc' = IF val_out'.raised = "" THEN "returned" ELSE "raised"
    /\ UNCHANGED <<val_class, val_username, val_project, val_present,
                   val_key_ok, exportVars, diffVars, verifyVars, collectVars,
                   checkVars, engineVars, importVars>>

ExportValidate ==
    /\ val_pc = "pending"
    /\ val_class = "UsernameValidator"
    /\ \E answer \in UserInfoAnswers(val_present, val_key_ok) :
          /\ val_answer' = answer
          /\ val_out' = UsernameValidator_validate(val_project, answer)
          /\ val_pc' = IF val_out'.raised = "" THEN "returned" ELSE "raised"
    /\ UNCHANGED <<val_class, val_username, val_project, val_present,
                   val_key_ok, exportVars, diffVars, verifyVars, collectVars,
                   checkVars, engineVars, importVars>>

\* ------------------------------------------------------------ snapshots
\* Membership lists of at most n memberships, each user at most once.
RECURSIVE MemberListsUpTo(_)
MemberListsUpTo(n) ==
    IF n = 0 THEN {<<>>}
    ELSE LET prev == MemberListsUpTo(n - 1)
         IN  prev \cup {Append(l, Member(u, p)) :
                           l \in {x \in prev : Len(x) = n - 1},
                           u \in Usernames, p \in SourcePermissions}
\* alice and bob are interchangeable (two users other than the primary one):
\* of two lists that differ by exchanging them, the one naming alice first.
MemberLists ==
    {l \in MemberListsUpTo(MaxMembers) :
        /\ \A i, j \in DOMAIN l : l[i].username = l[j].username => i = j
        /\ \A j \in DOMAIN l :
              l[j].username = "bob" => \E i \in 1..(j - 1) : l[i].username = "alice"}

\* Team records of the import snapshots.
ImportPool ==
    { <<Member("alice", "owner"), Member("bob", "member")>>,
      <<Member("admin", "owner"), Member("alice", "member")>>,
      <<Member("alice", "owner"), Member("bob", "owner")>>,
      <<Member("alice", "member")>> }
ImportUserLists ==
    { <<[username |-> "admin", admin |-> TRUE], [username |-> "alice", admin |-> TRUE],
        [username |-> "bob", admin |-> FALSE]>>,
      <<[username |-> "admin", admin |-> TRUE], [username |-> "alice", admin |-> FALSE]>> }

\* --------------------------------------------------------- specifications
EngineIdle ==
    /\ key_cache = EmptyCache /\ snapshot = <<>> /\ dest = [t \in TeamNames |-> {}]
    /\ tix = 0 /\ rpc = "idle" /\ exc = "" /\ owner_name = NoUser
    /\ team_owner_ix = <<>> /\ filtered_ix = <<>> /\ mi = 1 /\ oi = 2
    /\ reqs = <<>> /\ warnings = 0 /\ last_cred = NoCred /\ obtained = {}
    /\ n_replays = 0 /\ finals = <<>> /\ raced = FALSE /\ n_interfere = 0
    /\ team_at_call = NoTeam
ImportIdle == ipc = "none" /\ verify_out = NotRun
CollectIdle ==
    /\ srvUsers = <<>> /\ srvTeams = <<>> /\ is_team = FALSE /\ limit = 1
    /\ page = 0 /\ user_list = <<>> /\ user_list_page = <<>>
    /\ n_requests = 0 /\ short_pages = 0 /\ cpc = "idle"
CheckIdle ==
    chk_users = <<>> /\ chk_teams = <<>> /\ chk_pc = "idle" /\ chk_out = NoOutcome
ExportIdle ==
    /\ xpc = "idle" /\ x_verify = FALSE /\ x_exc = "" /\ x_logged = FALSE
    /\ exit_status = -1
NoDiff == [missing |-> {}, fields |-> {}]
DiffIdle ==
    /\ dpc = "idle" /\ d_call = "any" /\ d_left = <<>> /\ d_right = <<>>
    /\ d_skip = {} /\ d_lr = NoDiff /\ d_rl = NoDiff
VerifyIdle ==
    /\ vpc = "idle" /\ v_imported = <<>> /\ v_exported = <<>> /\ v_k = 1
    /\ team_diff = {} /\ team_config_diff = {} /\ members_diff = <<>>
    /\ members_config_diff = <<>> /\ v_skipped = {} /\ v_status = <<>>
    /\ migration_status = FALSE
ValidateIdle ==
    /\ val_pc = "idle" /\ val_class = "" /\ val_username = "" /\ val_project = ""
    /\ val_present = FALSE /\ val_key_ok = FALSE /\ val_answer = ""
    /\ val_out = NotValidated
AuxIdle == ExportIdle /\ DiffIdle /\ VerifyIdle /\ ValidateIdle

InitCollect ==
    /\ \E n \in 0..MaxRecords : srvUsers = Resource("user", n)
    /\ \E n \in 0..MaxRecords : srvTeams = Resource("organization", n)
    /\ is_team \in BOOLEAN
    /\ limit \in 1..MaxLimit
    /\ page = 0 /\ user_list = <<>> /\ user_list_page = <<>>
    /\ n_requests = 0 /\ short_pages = 0 /\ cpc = "start"
    /\ CheckIdle /\ EngineIdle /\ ImportIdle /\ AuxIdle
NextCollect == CollectFirst \/ CollectLoop \/ CollectReturn
SpecCollect == InitCollect /\ [][NextCollect]_vars

InitCheck ==
    /\ chk_users \in UserLists
    /\ chk_teams \in TeamLists(MaxCheckTeams, OrderedMemberLists)
    /\ chk_pc = "pending"
    /\ chk_out = NoOutcome
    /\ CollectIdle /\ EngineIdle /\ ImportIdle /\ AuxIdle
NextCheck == CheckCall
SpecCheck == InitCheck /\ [][NextCheck]_vars

\* A TeamImporter after construction, and one team record to replay.
Init ==
    /\ key_cache = EmptyCache
    /\ \E l \in MemberLists : snapshot = <<Team("t1", l)>>
    /\ dest = [t \in TeamNames |-> {}]
    /\ tix = 1 /\ rpc = "idle" /\ exc = "" /\ owner_name = NoUser
    /\ team_owner_ix = <<>> /\ filtered_ix = <<>> /\ mi = 1 /\ oi = 2
    /\ reqs = <<>> /\ warnings = 0 /\ last_cred = NoCred /\ obtained = {}
    /\ n_replays = 0 /\ finals = <<>> /\ raced = FALSE /\ n_interfere = 0
    /\ team_at_call = NoTeam
    /\ ImportIdle /\ CollectIdle /\ CheckIdle /\ AuxIdle
Next ==
    \/ ReplayCall \/ DelTeam \/ AddTeam \/ AddMember \/ AddExtraOwner
    \/ Interfere \/ RaceAdd
Spec == Init /\ [][Next]_vars

\* The import command started on a snapshot and a destination.
InitImport ==
    /\ key_cache = EmptyCache
    /\ snapshot \in TeamLists(MaxTeams, ImportPool)
    /\ \E ms \in {{}, {Member("bob", "owner"), Member("alice", "member")}} :
          dest = [t \in TeamNames |-> IF t = "t1" THEN ms ELSE {}]
    /\ tix = 0 /\ rpc = "idle" /\ exc = "" /\ owner_name = NoUser
    /\ team_owner_ix = <<>> /\ filtered_ix = <<>> /\ mi = 1 /\ oi = 2
    /\ reqs = <<>> /\ warnings = 0 /\ last_cred = NoCred /\ obtained = {}
    /\ n_replays = 0 /\ finals = <<>> /\ raced = FALSE /\ n_interfere = 0
    /\ team_at_call = NoTeam
    /\ ipc = "ctor" /\ verify_out = NotRun
    /\ srvUsers \in ImportUserLists /\ srvTeams = TeamRecordsOf(dest)
    /\ is_team = FALSE /\ limit = MaxLimit
    /\ page = 0 /\ user_list = <<>> /\ user_list_page = <<>>
    /\ n_requests = 0 /\ short_pages = 0 /\ cpc = "idle"
    /\ CheckIdle /\ AuxIdle
NextImport ==
    \/ Construct \/ PreImportVerify \/ ImportLoop \/ ImportRaise \/ ImportFinish
    \/ DelTeam \/ AddTeam \/ AddMember \/ AddExtraOwner
SpecImport == InitImport /\ [][NextImport]_vars

\* The export command started on a source workspace.
InitExport ==
    /\ srvUsers \in ImportUserLists
    /\ srvTeams \in TeamLists(MaxTeams, ImportPool)
    /\ is_team = FALSE /\ limit = MaxLimit
    /\ page = 0 /\ user_list = <<>> /\ user_list_page = <<>>
    /\ n_requests = 0 /\ short_pages = 0 /\ cpc = "idle"
    /\ xpc = "users" /\ x_verify \in BOOLEAN /\ x_exc = "" /\ x_logged = FALSE
    /\ exit_status = -1
    /\ CheckIdle /\ EngineIdle /\ ImportIdle /\ DiffIdle /\ VerifyIdle
    /\ ValidateIdle
NextExport ==
    ExportUsers \/ ExportTeams \/ ExportVerify \/ ExportMetrics \/ ExportExcept
SpecExport == InitExport /\ [][NextExport]_vars

\* Member records as the comparison sees them: the role and an opaque
\* attribute of the user.
DiffUserOrder == <<"alice", "bob", "carol", "dave">>
DiffMember(u, p, n) == [username |-> u, permission |-> p, name |-> n]
RECURSIVE DiffCollectionsFrom(_)
DiffCollectionsFrom(k) ==
    IF k > MaxDiffRecords THEN {<<>>}
    ELSE LET rest == DiffCollectionsFrom(k + 1)
         IN  rest \cup {<<DiffMember(DiffUserOrder[k], p, n)>> \o r :
                            p \in {"owner", "admin"}, n \in {"n1", "n2"},
                            r \in rest}
DiffCollections == DiffCollectionsFrom(1)

\* Two collections handed to compare_metadata.
InitDiff ==
    /\ dpc = "pending" /\ d_call = "any"
    /\ d_left \in DiffCollections /\ d_right \in DiffCollections
    /\ d_skip = {} /\ d_lr = NoDiff /\ d_rl = NoDiff
    /\ CollectIdle /\ CheckIdle /\ EngineIdle /\ ImportIdle
    /\ ExportIdle /\ VerifyIdle /\ ValidateIdle
NextDiff == DiffCall \/ DiffMembers
SpecDiff == InitDiff /\ [][NextDiff]_vars

\* Team records as verify reads them: the handle, an attribute the team
\* comparison does not skip, and the memberships.
VerifyTeam(name, bio, ml) == [username |-> name, bio |-> bio, teamMembers |-> ml]
\* memberships of a source team, and those a destination team may have
SourceMemberLists ==
    { <<DiffMember("alice", "owner", "n1")>>,
      <<DiffMember("alice", "owner", "n1"), DiffMember("bob", "owner", "n1")>> }
VerifyMemberLists ==
    SourceMemberLists \cup
    { <<DiffMember("alice", "owner", "n1"), DiffMember("bob", "admin", "n1")>>,
      <<DiffMember("alice", "owner", "n1"), DiffMember("bob", "admin", "n2")>> }
RECURSIVE VerifyTeamListsFrom(_, _, _)
VerifyTeamListsFrom(k, bios, lists) ==
    IF k > MaxTeams THEN {<<>>}
    ELSE LET rest == VerifyTeamListsFrom(k + 1, bios, lists)
         IN  rest \cup {<<VerifyTeam(TeamName(k), b, ml)>> \o r :
                            b \in bios, ml \in lists, r \in rest}

\* Verify started on a source and a destination workspace.
InitVerify ==
    /\ vpc = "read"
    /\ v_exported \in VerifyTeamListsFrom(1, {"b1"}, SourceMemberLists)
    /\ v_imported \in VerifyTeamListsFrom(1, {"b1", ""}, VerifyMemberLists)
    /\ v_k = 1 /\ team_diff = {} /\ team_config_diff = {}
    /\ members_diff = <<>> /\ members_config_diff = <<>> /\ v_skipped = {}
    /\ v_status = <<>> /\ migration_status = FALSE
    /\ CollectIdle /\ CheckIdle /\ EngineIdle /\ ImportIdle
    /\ ExportIdle /\ DiffIdle /\ ValidateIdle
NextVerify == VerifyRead \/ VerifyTeams \/ VerifyMembers \/ VerifySummary
SpecVerify == InitVerify /\ [][NextVerify]_vars

\* A username validator constructed for a user and a project, before
\* validate() is called.
InitValidate ==
    /\ val_pc = "pending"
    /\ val_class \in {"UserNameImportValidator", "UsernameValidator"}
    /\ val_username \in Usernames
    /\ val_project \in {"p1", "p2"}
    /\ val_present \in BOOLEAN
    /\ val_key_ok \in BOOLEAN
    /\ val_answer = ""
    /\ val_out = NotValidated
    /\ CollectIdle /\ CheckIdle /\ EngineIdle /\ ImportIdle
    /\ ExportIdle /\ DiffIdle /\ VerifyIdle
NextValidate == ImportValidate \/ ExportValidate
SpecValidate == InitValidate /\ [][NextValidate]_vars

\* ------------------------------------------------------------------ claims
Selected == IF is_team THEN srvTeams ELSE srvUsers
CeilDiv(n, p) == (n + p - 1) \div p

\* C1: for a resource of N records served in pages of size P, the collector
\* issues exactly ceil(N/P) + 1 page requests, the last one answered by the
\* empty page, and returns the N records in source order; a page shorter
\* than P does not stop it; for N = 0 it issues one request and returns <<>>.
C1_PageRequests ==
    /\ cpc = "returned" =>
          /\ n_requests = CeilDiv(Len(Selected), limit) + 1
          /\ user_list = Selected
          /\ user_list_page = <<>>
          /\ Len(Selected) = 0 => (n_requests = 1 /\ user_list = <<>>)
    /\ (cpc = "loop" /\ user_list_page # <<>>) => ENABLED CollectLoop

\* A collection that went on after a page shorter than the limit has returned.
C1_Witness ==
    /\ cpc = "returned"
    /\ short_pages >= 1
    /\ Len(user_list) > limit
    /\ n_requests >= 3

HasOwner(team) == OwnerList(team.teamMembers) # <<>>
UsernamesOf(ul) == {ul[i].username : i \in DOMAIN ul}

\* C3 (as claimed): given a team list holding a team with no owner
\* membership, the check returns false, and does not raise.
C3_ZeroOwnersReturnsFalse ==
    (chk_pc = "done" /\ \E i \in DOMAIN chk_teams : ~HasOwner(chk_teams[i]))
        => (chk_out.raised = "" /\ chk_out.result = FALSE)

\* C4: when every team has an owner membership, the check returns, and it
\* returns true exactly when every membership username of every team is a
\* username of the user list; several owners or an owner who is no ML admin
\* do not change the result.
C4_TrueIffMembersPresent ==
    (chk_pc = "done" /\ \A i \in DOMAIN chk_teams : HasOwner(chk_teams[i]))
        => /\ chk_out.raised = ""
           /\ chk_out.result =
                 (\A i \in DOMAIN chk_teams :
                     \A j \in DOMAIN chk_teams[i].teamMembers :
                        chk_teams[i].teamMembers[j].username \in UsernamesOf(chk_users))

\* The check returned true for a team with two owners whose first owner is
\* no ML admin.
C4_Witness ==
    /\ chk_pc = "done"
    /\ chk_out.raised = ""
    /\ chk_out.result = TRUE
    /\ \E i \in DOMAIN chk_teams :
          /\ Len(OwnerList(chk_teams[i].teamMembers)) > 1
          /\ \E k \in DOMAIN chk_users :
                /\ chk_users[k].username = OwnerList(chk_teams[i].teamMembers)[1].username
                /\ ~chk_users[k].admin

Last(q) == q[Len(q)]
VerifyPassed == verify_out.raised = "" /\ verify_out.result = TRUE
VerifyFailed == verify_out.raised = "" /\ verify_out.result = FALSE

\* C2: in the import command no team delete, team create or member add is
\* sent unless _pre_import_verify has returned true; when it returns false
\* the command raises and sends none of them.
C2_GateBeforeMutation ==
    /\ (reqs # <<>> \/ n_replays > 0) => VerifyPassed
    /\ VerifyFailed => (ipc = "aborted" /\ reqs = <<>> /\ n_replays = 0)

\* The import is replaying a team and has sent requests for it.
C2_Witness == ipc = "import" /\ VerifyPassed /\ Len(reqs) >= 2

\* C5 (as claimed): an exception raised while replaying one team is caught:
\* it does not end the command, and the command ends only after every team
\* of the snapshot was replayed.
C5_FailureIsolated ==
    /\ (VerifyPassed /\ rpc = "raised") => ipc # "crashed"
    /\ (VerifyPassed /\ ipc \in {"done", "crashed"}) => tix = Len(snapshot)

FaultFree == \A k \in DOMAIN reqs : reqs[k].status \notin {"error", "401"}

\* C6: a replay of a team with an owner that is refused no request (but for
\* the destination's own rules) and is not raced returns, whatever the state
\* other clients left the destination team in; and all such replays of the
\* same team leave the same membership set on the destination.
C6_ReplayRebuilds ==
    /\ \A i, j \in DOMAIN finals :
          (~finals[i].raced /\ ~finals[j].raced)
              => finals[i].members = finals[j].members
    /\ (rpc \in {"returned", "raised"} /\ HasOwner(CurTeam) /\ FaultFree /\ ~raced)
          => rpc = "returned"

\* Two replays returned, the destination team changed by another client in
\* between, and the second replay deleted the team it found.
C6_Witness ==
    /\ Len(finals) = 2
    /\ ~finals[1].raced /\ ~finals[2].raced
    /\ finals[1].changes = 0 /\ finals[2].changes = 1
    /\ Cardinality(finals[2].members) >= 2
    /\ reqs # <<>> /\ reqs[1].op = "DELETE team" /\ reqs[1].status = "ok"

\* C7: a member add answered "already a member" does not raise: the replay
\* goes on, and when it returns the destination team holds each user of the
\* source list once, as many memberships as the source list.
C7_ConflictTolerated ==
    /\ (reqs # <<>> /\ Last(reqs).status = "already")
          => (rpc \in {"members", "owners", "returned"} /\ exc = "")
    /\ (rpc = "returned" /\ \E k \in DOMAIN reqs : reqs[k].status = "already")
          => /\ Cardinality(dest[CurTeam.username]) = Len(CurTeam.teamMembers)
             /\ Cardinality(NamesIn(dest[CurTeam.username]))
                   = Cardinality(dest[CurTeam.username])

\* A replay returned after a conflict, having added another member after it.
C7_Witness ==
    /\ rpc = "returned"
    /\ \E k \in DOMAIN reqs :
          /\ reqs[k].status = "already"
          /\ k < Len(reqs)
          /\ reqs[Len(reqs)].status = "ok"

\* C8 (as claimed): a credential lookup for a user a credential was obtained
\* for earlier in the run is answered from the cache, without a fetch or a
\* mint request.
C8_CredentialCached ==
    (last_cred.lookup /\ last_cred.had)
        => /\ last_cred.hit
           /\ last_cred.sent = <<>>
           /\ last_cred.api_key = KeyOf(last_cred.user)

\* C9: a call whose acting username is the primary one, or None, is sent with
\* the primary credential, sends no fetch or mint request and neither reads
\* nor writes the cache.
C9_PrimaryDirect ==
    (reqs # <<>> /\ last_cred.user \in {NoUser, PrimaryUser})
        => /\ last_cred.api_key = PrimaryKey
           /\ Last(reqs).cred = PrimaryKey
           /\ last_cred.sent = <<>>
           /\ ~last_cred.lookup
           /\ key_cache = last_cred.cache_before

\* A member add sent acting as the primary user, who owns the team.
C9_Witness ==
    /\ reqs # <<>>
    /\ last_cred.user = PrimaryUser
    /\ Last(reqs).op = "POST member"
    /\ Last(reqs).status = "ok"

\* C10: on a cache miss the lookup sends the fetch first, the mint only after
\* a failed fetch, and when both fail it returns no credential without
\* raising (the request is then sent without one).
C10_FetchThenMint ==
    (reqs # <<>> /\ last_cred.lookup /\ ~last_cred.hit)
        => /\ last_cred.fetch \in {"ok", "failed"}
           /\ last_cred.sent =
                 (IF last_cred.fetch = "ok" THEN <<"GET">> ELSE <<"GET", "POST">>)
           /\ (last_cred.mint # "none") = (last_cred.fetch = "failed")
           /\ last_cred.api_key =
                 (IF last_cred.fetch = "ok" \/ last_cred.mint = "ok"
                  THEN KeyOf(last_cred.user) ELSE NoKey)
           /\ Last(reqs).cred = last_cred.api_key
           /\ Last(reqs).acting = last_cred.user

\* Fetch and mint both failed, and the request went out without a credential.
C10_Witness ==
    /\ reqs # <<>>
    /\ last_cred.fetch = "failed" /\ last_cred.mint = "failed"
    /\ Last(reqs).cred = NoKey /\ Last(reqs).status = "401"

\* ------------------------------------------------- claims on the replay
FirstOwnerName == OwnerList(CurTeam.teamMembers)[1].username
DestOwners(t) == {m \in dest[t] : m.permission = "owner"}
ExtraOwnerNames ==
    {CurTeam.teamMembers[team_owner_ix[i]].username : i \in 2..Len(team_owner_ix)}
Conflicts == Cardinality({k \in DOMAIN reqs : reqs[k].status = "already"})

\* C11 (as claimed): the replay of a team without owner membership fails with
\* a MalformedTeamError at the owner determination, before any delete, create
\* or member add request of that team.
C11_MalformedTeamError ==
    (rpc = "raised" /\ team_owner_ix = <<>>)
        => (exc = "MalformedTeamError" /\ reqs = <<>>)

\* C12: the create request of a replay acts as the first owner membership of
\* the team record and is sent with that user's credential (the primary one
\* exactly when that owner is the primary user; none when neither fetch nor
\* mint gave one, and then it is refused); after a replay that returned the
\* first owner is the owner of the destination team.
C12_CreateAsFirstOwner ==
    /\ \A k \in DOMAIN reqs :
          reqs[k].op = "POST team"
              => /\ reqs[k].acting = FirstOwnerName
                 /\ reqs[k].cred \in {KeyOf(FirstOwnerName), NoKey}
                 /\ (reqs[k].cred = PrimaryKey) = (FirstOwnerName = PrimaryUser)
                       \/ reqs[k].cred = NoKey
                 /\ reqs[k].status = "ok" => reqs[k].cred = KeyOf(FirstOwnerName)
    /\ rpc = "returned"
          => DestOwners(CurTeam.username) = {Member(FirstOwnerName, "owner")}

\* A replay of a team with two owners returned, the team created with the
\* minted credential of its first owner, who is not the primary user.
C12_Witness ==
    /\ rpc = "returned"
    /\ Len(team_owner_ix) = 2
    /\ FirstOwnerName # PrimaryUser
    /\ reqs[2].op = "POST team" /\ reqs[2].cred = KeyOf(FirstOwnerName)
    /\ DestOwners(CurTeam.username) = {Member(FirstOwnerName, "owner")}

\* C13: after a replay of a team with several owner memberships returned,
\* every owner membership beyond the first is on the destination team, as
\* admin (another client adding that user first apart), the first owner is
\* the only owner, and one conversion warning was logged per extra owner
\* (the other warnings are those of ignored conflicts).
C13_ExtraOwnersDowngraded ==
    (rpc = "returned" /\ Len(team_owner_ix) > 1)
        => /\ \A u \in ExtraOwnerNames :
                 /\ u \in NamesIn(dest[CurTeam.username])
                 /\ Member(u, "owner") \notin dest[CurTeam.username]
                 /\ ~raced => Member(u, "admin") \in dest[CurTeam.username]
           /\ DestOwners(CurTeam.username) = {Member(FirstOwnerName, "owner")}
           /\ warnings - Conflicts = Len(team_owner_ix) - 1

\* A replay of a team with three owners returned, both extra owners admins.
C13_Witness ==
    /\ rpc = "returned" /\ ~raced
    /\ Len(team_owner_ix) = 3
    /\ warnings = 2
    /\ Cardinality({m \in dest[CurTeam.username] : m.permission = "admin"}) = 2

\* C17: in one replay the delete request is the first request, the create
\* request the second, every member add comes after a create request that
\* succeeded, and all of them name the team of the record.
C17_DeleteCreateAdd ==
    \A k \in DOMAIN reqs :
       /\ reqs[k].team = CurTeam.username
       /\ reqs[k].op = "DELETE team" <=> k = 1
       /\ reqs[k].op = "POST team" <=> k = 2
       /\ reqs[k].op = "POST member"
             => (k >= 3 /\ reqs[2].op = "POST team" /\ reqs[2].status = "ok")

\* A replay that deleted the team, created it and added two memberships.
C17_Witness ==
    /\ rpc = "returned"
    /\ Len(reqs) = 4
    /\ reqs[1].status = "ok"
    /\ reqs[3].op = "POST member" /\ reqs[4].op = "POST member"

\* C18: a replay of a team with an owner sends the delete request first, as
\* the primary identity with the primary credential, and whatever the answer
\* the replay goes on to the create request.
C18_DeleteBestEffort ==
    /\ (rpc \in {"create", "members", "owners", "returned"}
           \/ (rpc = "raised" /\ exc = "HTTPError"))
          => /\ reqs # <<>>
             /\ reqs[1].op = "DELETE team"
             /\ reqs[1].acting = NoUser
             /\ reqs[1].cred = PrimaryKey
    /\ rpc = "del" => (reqs = <<>> /\ ENABLED DelTeam)
    /\ Len(reqs) = 1 => (rpc = "create" /\ exc = "" /\ ENABLED AddTeam)
    /\ Len(reqs) >= 2 => reqs[2].op = "POST team"

\* The delete request was refused with an error other than 404, and the
\* create request was sent after it.
C18_Witness ==
    /\ Len(reqs) >= 2
    /\ reqs[1].op = "DELETE team" /\ reqs[1].status = "error"
    /\ reqs[2].op = "POST team"

AddedNames ==
    {reqs[k].member.username :
        k \in {j \in DOMAIN reqs : reqs[j].op = "POST member" /\ reqs[j].status = "ok"}}

\* C19: a member add answered with an error other than "already a member"
\* raises HTTPError out of the replay: it is the last request of the replay,
\* and the memberships after it are not added (the destination team holds
\* the owner and the members added before it, other clients apart).
C19_AddErrorStopsReplay ==
    \A k \in DOMAIN reqs :
       (reqs[k].op = "POST member" /\ reqs[k].status \notin {"ok", "already"})
           => /\ k = Len(reqs)
              /\ rpc = "raised" /\ exc = "HTTPError"
              /\ ~raced => NamesIn(dest[CurTeam.username])
                               = {FirstOwnerName} \cup AddedNames

\* The first member add of a team of three was refused: the replay raised,
\* the two memberships are not on the destination team.
C19_Witness ==
    /\ rpc = "raised" /\ ~raced
    /\ Len(reqs) = 3
    /\ reqs[3].op = "POST member" /\ reqs[3].status = "error"
    /\ Len(CurTeam.teamMembers) = 3
    /\ Cardinality(dest[CurTeam.username]) = 1

\* C22 (as claimed): every member add request of a replay, those of the
\* extra owners downgraded to admin included, is sent acting as the first
\* owner of the team, never as the member being added.
C22_AddsActAsFirstOwner ==
    \A k \in DOMAIN reqs :
       reqs[k].op = "POST member"
           => /\ reqs[k].acting = FirstOwnerName
              /\ reqs[k].acting # reqs[k].member.username

\* C23 (as claimed): when _create_or_update_team returns, the team record it
\* was given is as it was at the call: every membership has the username and
\* the permission it had, also for a team with several owners.
C23_RecordUnchanged ==
    rpc = "returned" => CurTeam = team_at_call

\* C24 (as claimed): every entry of key_cache is keyed by a username a
\* credential was obtained for and holds that user's credential; a lookup
\* whose fetch and mint both failed adds no entry; no entry is stored under
\* the placeholder key.
C24_CacheEntriesSound ==
    /\ \A k \in DOMAIN key_cache :
          /\ k \in obtained
          /\ key_cache[k] = KeyOf(k)
          /\ k # "username"
    /\ (last_cred.fetch = "failed" /\ last_cred.mint = "failed")
          => key_cache = last_cred.cache_before

\* ----------------------------------------------- claims on the commands
\* C14 (as claimed): when an exception is raised during the export command
\* (collecting users or teams, the verification, writing the metrics) the
\* failure is logged and the process ends with a non-zero exit status.
C14_ExportFailureExitsNonZero ==
    (xpc = "exited" /\ x_exc # "") => (x_logged /\ exit_status # 0)

\* ------------------------------------------- claims on compare_metadata
KeysOf(coll) == {coll[i].username : i \in DOMAIN coll}
Shared == KeysOf(d_left) \cap KeysOf(d_right)
LeftOf(key) == RecordOf(d_left, "username", key)
RightOf(key) == RecordOf(d_right, "username", key)
EntriesFor(out, key) == {kf \in out.fields : kf[1] = key}

C16_ExcludedFieldsIgnored ==
    dpc = "done"
        => \A key \in Shared :
              /\ (\A f \in DOMAIN LeftOf(key) :
                     LeftOf(key)[f] # RightOf(key)[f] => f \in d_skip)
                    => EntriesFor(d_lr, key) = {}
              /\ (/\ d_call = "members"
                  /\ LeftOf(key).permission = "admin"
                  /\ RightOf(key).permission = "owner"
                  /\ LeftOf(key).name = RightOf(key).name)
                    => EntriesFor(d_lr, key) = {}

\* The member comparison of verify on a member downgraded from owner to
\* admin, and on another member whose name differs: only the latter is
\* reported.
C16_Witness ==
    /\ dpc = "done" /\ d_call = "members"
    /\ \E key \in Shared :
          /\ LeftOf(key).permission = "admin"
          /\ RightOf(key).permission = "owner"
          /\ EntriesFor(d_lr, key) = {}
    /\ d_lr.fields # {}

\* ------------------------------------------------------ claims on verify
ComparedTeams ==
    {k \in DOMAIN v_exported : v_exported[k].username \in KeysOf(v_imported)}

\* C20: once the two team lists are read, verify goes on to its summary
\* whatever the comparisons report; a source team the destination lacks is
\* skipped by the member comparison; and the aggregate status is pass
\* exactly when the team missing keys, the team field differences and the
\* member missing keys and field differences of every compared team are all
\* empty.
C20_VerifySummary ==
    /\ vpc = "teams" => ENABLED VerifyTeams
    /\ vpc = "members" => ENABLED (VerifyMembers \/ VerifySummary)
    /\ vpc = "crashed" => (v_status = <<>> /\ members_diff = <<>>)
    /\ vpc = "done"
          => /\ v_k = Len(v_exported) + 1
             /\ v_skipped = KeysOf(v_exported) \ KeysOf(v_imported)
             /\ Len(members_diff) = Cardinality(ComparedTeams)
             /\ Len(members_config_diff) = Cardinality(ComparedTeams)
             /\ migration_status =
                   (/\ team_diff = {}
                    /\ team_config_diff = {}
                    /\ \A i \in DOMAIN members_diff : members_diff[i] = {}
                    /\ \A i \in DOMAIN members_config_diff :
                          members_config_diff[i] = {})
             /\ Last(v_status) = ~migration_status

\* Verify reached its summary having skipped a source team the destination
\* lacks and found a member field difference in another one: it fails.
C20_Witness ==
    /\ vpc = "done"
    /\ v_skipped # {}
    /\ Len(members_config_diff) = 1 /\ members_config_diff[1] # {}
    /\ team_config_diff = {}
    /\ ~migration_status

\* ------------------------------------------------ claims on the validators
\* C21: validate() of the two username validators returns a
\* ValidationResponse and raises nothing whenever the user-info request got
\* an HTTP answer: PASSED for a success; FAILED for 404, for 401 and for any
\* other status, with the message of that case (the two that name the
\* project carry its name).
C21_ValidateReturnsResponse ==
    (val_pc # "pending" /\ IsHTTPStatus(val_answer))
        => /\ val_pc = "returned"
           /\ val_out.raised = ""
           /\ val_out.response.validation_name = "check if user is present"
           /\ val_out.response.validation_status =
                 (IF val_answer = "200" THEN "PASSED" ELSE "FAILED")
           /\ val_out.response.validation_msg =
                 (IF val_answer = "200" THEN <<"The user name exists.">>
                  ELSE IF val_answer = "404"
                  THEN <<"The user name does not exist. Ensure that the user name provided for the project {} is correct.",
                         val_project>>
                  ELSE IF val_answer = "401"
                  THEN <<IF val_class = "UsernameValidator"
                         THEN "The user is unauthorised. Ensure that the API key for the project {} is correct "
                         ELSE "The user is unauthorised. Ensure that the API key for the project {} is correct",
                         val_project>>
                  ELSE <<"Exception occurred while validating username">>)

\* The export validator returned FAILED for a status other than 404 and 401.
C21_Witness ==
    /\ val_pc = "returned"
    /\ val_class = "UsernameValidator"
    /\ val_answer = "500"
    /\ val_out.response.validation_status = "FAILED"
====
